---- MODULE Spec2Model ----
(***************************************************************************)
(* Model of the speculative disassembly engine of nucleus (src/disasm.cc): *)
(* the AddressMap bookkeeping, the x86 basic-block decoder                 *)
(* (nucleus_disasm_bb_x86) and the per-section worklist driver             *)
(* (nucleus_disasm_section / nucleus_disasm).                              *)
(*                                                                         *)
(* Addresses are small naturals; no section reaches the top of the 64-bit  *)
(* address space, so uint64_t arithmetic never wraps in the model.         *)
(* The decode oracle (capstone), and the policies bb_mutate, bb_score and  *)
(* bb_select live outside src/: their results are inputs drawn with \E.    *)
(***************************************************************************)
EXTENDS Integers, Sequences, FiniteSets, TLC

\* ------------------------------------------------------------------------
\* Bounds of the model
\* ------------------------------------------------------------------------

\* AddressMap operations are exercised on the addresses 1..MaxAddr.
MaxAddr == 3

\* The block decoder is run on sections of 1..MaxSecSize bytes.
MaxSecSize == 3

\* The driver runs on a first section of 1..MaxDriverSize bytes, followed by
\* a second section of one byte.
MaxDriverSize == 2

\* bb_mutate returns at most MaxMutants candidates per call.
MaxMutants == 2

\* With an unrestricted mutation policy the accepted list grows without
\* limit; bb_mutate is then called only while a section has fewer than
\* MaxBBs accepted blocks.
MaxBBs == 2

\* ------------------------------------------------------------------------
\* Generic helpers for std::map / std::vector
\* ------------------------------------------------------------------------

EmptyMap == [x \in {} |-> {}]

\* std::map::count(k)
count(f, k) == IF k \in DOMAIN f THEN 1 ELSE 0

\* std::map::operator[](k) = v : creates the key when it is missing
MapPut(f, k, v) == [x \in (DOMAIN f) \cup {k} |-> IF x = k THEN v ELSE f[x]]

\* std::map::erase(k)
MapErase(f, k) == [x \in (DOMAIN f) \ {k} |-> f[x]]

Range(s) == {s[k] : k \in DOMAIN s}

\* ------------------------------------------------------------------------
\* AddressMap (flags are bit masks; a mask is modelled as the set of its bits,
\* `|` as union, and DISASM_REGION_UNMAPPED is the mask with no bit set)
\* ------------------------------------------------------------------------

DISASM_REGION_UNMAPPED == {}
DISASM_REGION_CODE == {"CODE"}
DISASM_REGION_INS_START == {"INS_START"}
DISASM_REGION_BB_START == {"BB_START"}

\* A freshly constructed AddressMap
NewAddressMap == [addrmap |-> EmptyMap, unmapped |-> << >>, unmapped_lookup |-> EmptyMap]

contains(m, addr) == count(m.addrmap, addr) # 0 \/ count(m.unmapped_lookup, addr) # 0

unmapped_count(m) == Len(m.unmapped)

\* unmapped[i] with the code's 0-based index
get_unmapped(m, k) == m.unmapped[k + 1]

\* insert without the contains() test
Insert_Always(m, addr) ==
  LET u == Append(m.unmapped, addr)
  IN  [m EXCEPT !.unmapped = u,
                !.unmapped_lookup = MapPut(m.unmapped_lookup, addr, Len(u) - 1)]

insert(m, addr) ==
  IF ~contains(m, addr)
  THEN LET u == Append(m.unmapped, addr)
       IN  [m EXCEPT !.unmapped = u,
                     !.unmapped_lookup = MapPut(m.unmapped_lookup, addr, Len(u) - 1)]
  ELSE m

\* erase_unmapped that moves the last element without updating its index
Erase_NoIndexUpdate(m, addr) ==
  IF count(m.unmapped_lookup, addr) # 0
  THEN LET cnt  == unmapped_count(m)
           k    == m.unmapped_lookup[addr]
           back == m.unmapped[cnt]
           m1   == IF cnt > 1
                   THEN [m EXCEPT !.unmapped = [@ EXCEPT ![k + 1] = back]]
                   ELSE m
       IN  [m1 EXCEPT !.unmapped_lookup = MapErase(@, addr),
                      !.unmapped = SubSeq(@, 1, cnt - 1)]
  ELSE m

erase_unmapped(m, addr) ==
  IF count(m.unmapped_lookup, addr) # 0
  THEN LET cnt  == unmapped_count(m)
           k    == m.unmapped_lookup[addr]
           back == m.unmapped[cnt]
           m1   == IF cnt > 1
                   THEN [m EXCEPT !.unmapped = [@ EXCEPT ![k + 1] = back],
                                  !.unmapped_lookup = MapPut(@, back, k)]
                   ELSE m
       IN  [m1 EXCEPT !.unmapped_lookup = MapErase(@, addr),
                      !.unmapped = SubSeq(@, 1, cnt - 1)]
  ELSE m

\* assert(contains(addr)) at the head of get_addr_type / set_addr_type /
\* add_addr_flag: it fails exactly when the address is not tracked.
assert_fails(m, addr) == ~contains(m, addr)

\* get_addr_type returns addrmap[addr]; std::map::operator[] creates the key
\* with a value-initialised (0) mask when it is missing.  The result is the
\* pair of the value returned and the map afterwards.
get_addr_type(m, addr) ==
  IF ~contains(m, addr)
  THEN [val |-> DISASM_REGION_UNMAPPED, map |-> m]
  ELSE IF count(m.addrmap, addr) # 0
       THEN [val |-> m.addrmap[addr], map |-> m]
       ELSE [val |-> {}, map |-> [m EXCEPT !.addrmap = MapPut(@, addr, {})]]

set_addr_type(m, addr, type) ==
  IF contains(m, addr)
  THEN LET m1 == IF type # DISASM_REGION_UNMAPPED THEN erase_unmapped(m, addr) ELSE m
       IN  [m1 EXCEPT !.addrmap = MapPut(@, addr, type)]
  ELSE m

\* add_addr_flag with ^= in place of |=
AddFlag_Xor(m, addr, flag) ==
  IF contains(m, addr)
  THEN LET m1  == IF flag # DISASM_REGION_UNMAPPED THEN erase_unmapped(m, addr) ELSE m
           old == IF count(m1.addrmap, addr) # 0 THEN m1.addrmap[addr] ELSE {}
       IN  [m1 EXCEPT !.addrmap = MapPut(@, addr, (old \ flag) \cup (flag \ old))]
  ELSE m

add_addr_flag(m, addr, flag) ==
  IF contains(m, addr)
  THEN LET m1  == IF flag # DISASM_REGION_UNMAPPED THEN erase_unmapped(m, addr) ELSE m
           old == IF count(m1.addrmap, addr) # 0 THEN m1.addrmap[addr] ELSE {}
       IN  [m1 EXCEPT !.addrmap = MapPut(@, addr, old \cup flag)]
  ELSE m

\* ------------------------------------------------------------------------
\* The decode oracle (capstone).  What cs_disasm_iter yields at a position is
\* a function of the bytes there; a section's content is modelled directly as
\* the oracle's answer at each offset:
\*   "FAIL"     cs_disasm_iter returns false
\*   "INVALID"  it returns true with id = X86_INS_INVALID
\*   "ZERO"     it returns true with size = 0
\*   a form     it returns true with that instruction
\* ------------------------------------------------------------------------

X86_REG_INVALID == "REG_INVALID"
X86_REG_EIZ == "EIZ"

OpReg(r) == [type |-> "X86_OP_REG", reg |-> r]
OpImm(v) == [type |-> "X86_OP_IMM", imm |-> v]
OpMem(seg, base, index, disp) ==
  [type |-> "X86_OP_MEM", mem |-> [segment |-> seg, base |-> base, index |-> index, disp |-> disp]]

\* cs_insn as far as the engine reads it: id, size, detail->groups,
\* detail->x86.operands
CsInsn(id, size, groups, operands) ==
  [id |-> id, size |-> size, groups |-> groups, operands |-> operands]

\* A small catalogue of x86 instructions, by name
Form(name) ==
  CASE name = "nop"       -> CsInsn("X86_INS_NOP", 1, {}, << >>)
    [] name = "fnop"      -> CsInsn("X86_INS_FNOP", 2, {}, << >>)
    [] name = "mov_same"  -> CsInsn("X86_INS_MOV", 2, {}, << OpReg("EAX"), OpReg("EAX") >>)
    [] name = "mov"       -> CsInsn("X86_INS_MOV", 2, {}, << OpReg("EAX"), OpReg("EBX") >>)
    [] name = "xchg_same" -> CsInsn("X86_INS_XCHG", 2, {}, << OpReg("EBX"), OpReg("EBX") >>)
    [] name = "lea_same"  -> CsInsn("X86_INS_LEA", 3, {},
                               << OpReg("EAX"), OpMem(X86_REG_INVALID, "EAX", X86_REG_INVALID, 0) >>)
    [] name = "lea_eiz"   -> CsInsn("X86_INS_LEA", 4, {},
                               << OpReg("ESI"), OpMem(X86_REG_INVALID, "ESI", X86_REG_EIZ, 0) >>)
    [] name = "lea"       -> CsInsn("X86_INS_LEA", 3, {},
                               << OpReg("EAX"), OpMem(X86_REG_INVALID, "EBX", X86_REG_INVALID, 4) >>)
    [] name = "int3"      -> CsInsn("X86_INS_INT3", 1, {"CS_GRP_INT"}, << >>)
    [] name = "ud2"       -> CsInsn("X86_INS_UD2", 2, {}, << >>)
    [] name = "hlt"       -> CsInsn("X86_INS_HLT", 1, {"CS_GRP_PRIVILEGE"}, << >>)
    [] name = "push"      -> CsInsn("X86_INS_PUSH", 1, {}, << OpReg("EAX") >>)
    [] name = "ret"       -> CsInsn("X86_INS_RET", 1, {"CS_GRP_RET"}, << >>)
    [] name = "jmp"       -> CsInsn("X86_INS_JMP", 2, {"CS_GRP_JUMP"}, << OpImm(1) >>)
    [] name = "jmp_reg"   -> CsInsn("X86_INS_JMP", 2, {"CS_GRP_JUMP"}, << OpReg("EAX") >>)
    [] name = "je"        -> CsInsn("X86_INS_JE", 2, {"CS_GRP_JUMP"}, << OpImm(2) >>)
    [] name = "call"      -> CsInsn("X86_INS_CALL", 2, {"CS_GRP_CALL"}, << OpImm(1) >>)

AllForms == {"nop", "fnop", "mov_same", "mov", "xchg_same", "lea_same", "lea_eiz", "lea",
             "int3", "ud2", "hlt", "push", "ret", "jmp", "jmp_reg", "je", "call"}

NonInsn == {"FAIL", "INVALID", "ZERO"}

\* cs_disasm_iter at offset off of the section, n = size - off bytes left: no
\* byte left, or an instruction cut by the end of the section, decodes to
\* nothing.
Oracle(sec, off) ==
  IF off >= sec.size THEN "FAIL"
  ELSE LET o == sec.bytes[off + 1]
       IN  IF o \in NonInsn THEN o
           ELSE IF Form(o).size > sec.size - off THEN "FAIL" ELSE o

\* ------------------------------------------------------------------------
\* Instruction classification
\* ------------------------------------------------------------------------

is_cs_nop_ins(ins) == ins.id \in {"X86_INS_NOP", "X86_INS_FNOP"}

IsRegPair(ins) ==
  /\ Len(ins.operands) = 2
  /\ ins.operands[1].type = "X86_OP_REG"
  /\ ins.operands[2].type = "X86_OP_REG"
  /\ ins.operands[1].reg = ins.operands[2].reg

IsLeaSelf(ins, index) ==
  /\ Len(ins.operands) = 2
  /\ ins.operands[1].type = "X86_OP_REG"
  /\ ins.operands[2].type = "X86_OP_MEM"
  /\ ins.operands[2].mem.segment = X86_REG_INVALID
  /\ ins.operands[2].mem.base = ins.operands[1].reg
  /\ ins.operands[2].mem.index = index
  /\ ins.operands[2].mem.disp = 0

is_cs_semantic_nop_ins(ins) ==
  CASE ins.id = "X86_INS_MOV"  -> IsRegPair(ins)
    [] ins.id = "X86_INS_XCHG" -> IsRegPair(ins)
    [] ins.id = "X86_INS_LEA"  -> IsLeaSelf(ins, X86_REG_INVALID) \/ IsLeaSelf(ins, X86_REG_EIZ)
    [] OTHER -> FALSE

is_cs_trap_ins(ins) == ins.id \in {"X86_INS_INT3", "X86_INS_UD2"}

is_cs_cflow_group(g) == g \in {"CS_GRP_JUMP", "CS_GRP_CALL", "CS_GRP_RET", "CS_GRP_IRET"}

is_cs_cflow_ins(ins) == \E g \in ins.groups : is_cs_cflow_group(g)

is_cs_call_ins(ins) == ins.id \in {"X86_INS_CALL", "X86_INS_LCALL"}

is_cs_ret_ins(ins) == ins.id \in {"X86_INS_RET", "X86_INS_RETF"}

is_cs_unconditional_jmp_ins(ins) == ins.id = "X86_INS_JMP"

is_cs_conditional_cflow_ins(ins) ==
  ins.id \in {"X86_INS_JAE", "X86_INS_JA", "X86_INS_JBE", "X86_INS_JB", "X86_INS_JCXZ",
              "X86_INS_JECXZ", "X86_INS_JE", "X86_INS_JGE", "X86_INS_JG", "X86_INS_JLE",
              "X86_INS_JL", "X86_INS_JNE", "X86_INS_JNO", "X86_INS_JNP", "X86_INS_JNS",
              "X86_INS_JO", "X86_INS_JP", "X86_INS_JRCXZ", "X86_INS_JS"}

is_cs_privileged_ins(ins) ==
  ins.id \in {"X86_INS_HLT", "X86_INS_IN", "X86_INS_INSB", "X86_INS_INSW", "X86_INS_INSD",
              "X86_INS_OUT", "X86_INS_OUTSB", "X86_INS_OUTSW", "X86_INS_OUTSD",
              "X86_INS_RDMSR", "X86_INS_WRMSR", "X86_INS_RDPMC", "X86_INS_RDTSC",
              "X86_INS_LGDT", "X86_INS_LLDT", "X86_INS_LTR", "X86_INS_LMSW",
              "X86_INS_CLTS", "X86_INS_INVD", "X86_INS_INVLPG", "X86_INS_WBINVD"}

cs_to_nucleus_op_type(op) ==
  CASE op = "X86_OP_REG" -> "OP_TYPE_REG"
    [] op = "X86_OP_IMM" -> "OP_TYPE_IMM"
    [] op = "X86_OP_MEM" -> "OP_TYPE_MEM"
    [] op = "X86_OP_FP"  -> "OP_TYPE_FP"
    [] OTHER -> "OP_TYPE_NONE"

\* nop without the two rules for PE binaries
IsNop_NoPeRule(bin, ins) == is_cs_nop_ins(ins) \/ is_cs_semantic_nop_ins(ins)

\* nop, as decided in the decode loop: an architectural no-op, a semantic
\* no-op unless the binary is PE, a trap when the binary is PE
IsNop(bin, ins) ==
  \/ is_cs_nop_ins(ins)
  \/ (is_cs_semantic_nop_ins(ins) /\ bin.type # "BIN_TYPE_PE")
  \/ (is_cs_trap_ins(ins) /\ bin.type = "BIN_TYPE_PE")

\* ------------------------------------------------------------------------
\* BB and Instruction
\* ------------------------------------------------------------------------

NoTarget == "none"

\* A BB as bb_mutate hands it over: only start is set
NewBB(start) ==
  [start |-> start, end |-> 0, insns |-> << >>, invalid |-> FALSE, privileged |-> FALSE,
   padding |-> FALSE, trap |-> FALSE, alive |-> FALSE]

\* The Instruction appended for cs_ins decoded at address addr
MakeInstruction(bin, ins, addr) ==
  LET cflow == is_cs_cflow_ins(ins)
      types == [k \in DOMAIN ins.operands |-> cs_to_nucleus_op_type(ins.operands[k].type)]
      imms  == {k \in DOMAIN ins.operands : ins.operands[k].type = "X86_OP_IMM"}
      flags == (IF IsNop(bin, ins) THEN {"NOP"} ELSE {})
          \cup (IF is_cs_ret_ins(ins) THEN {"RET"} ELSE {})
          \cup (IF is_cs_unconditional_jmp_ins(ins) \/ is_cs_conditional_cflow_ins(ins)
                THEN {"JMP"} ELSE {})
          \cup (IF is_cs_conditional_cflow_ins(ins) THEN {"COND"} ELSE {})
          \cup (IF cflow THEN {"CFLOW"} ELSE {})
          \cup (IF is_cs_call_ins(ins) THEN {"CALL"} ELSE {})
          \cup (IF cflow /\ \E k \in DOMAIN types : types[k] \in {"OP_TYPE_REG", "OP_TYPE_MEM"}
                THEN {"INDIRECT"} ELSE {})
  IN  [start      |-> addr,
       size       |-> ins.size,
       privileged |-> is_cs_privileged_ins(ins),
       trap       |-> is_cs_trap_ins(ins),
       flags      |-> flags,
       operands   |-> types,
       target     |-> IF cflow /\ imms # {}
                      THEN ins.operands[CHOOSE k \in imms : \A j \in imms : j <= k].imm
                      ELSE NoTarget]

\* ------------------------------------------------------------------------
\* nucleus_disasm_bb_x86
\* ------------------------------------------------------------------------

\* "group nop instructions together": the first instruction decides
first_sets_only_nop(ndisassembled, nop, only_nop) ==
  IF ndisassembled = 0 /\ nop THEN TRUE ELSE only_nop

\* the two breaks that end a block before an instruction of the other class
GroupBreak_NoSecond(only_nop, nop) == ~only_nop /\ nop
nop_group_break(only_nop, nop) == (~only_nop /\ nop) \/ (only_nop /\ ~nop)

\* "end of basic block": the break after a control-flow instruction
EndsBlock_Always(cflow) == TRUE
EndsBlock_Never(cflow) == FALSE
cflow_ends_block(cflow) == cflow

\* bb->end += cs_ins->size
GrowEnd_ByOne(end, ins) == end + 1
grow_end(end, ins) == end + ins.size

\* The while(cs_disasm_iter(...)) loop from offset off on, with ndisassembled
\* instructions appended so far.  Yields the block and ndisassembled.
RECURSIVE DecodeLoop(_, _, _, _, _, _)
DecodeLoop(bin, sec, bb, off, ndisassembled, only_nop) ==
  LET o    == Oracle(sec, off)
      stop == [bb |-> bb, ndisassembled |-> ndisassembled]
  IN  IF o = "FAIL" THEN stop
      ELSE IF o = "INVALID"
      THEN [bb |-> [bb EXCEPT !.invalid = TRUE, !.end = @ + 1],
            ndisassembled |-> ndisassembled]
      ELSE IF o = "ZERO" THEN stop
      ELSE LET ins   == Form(o)
               nop   == IsNop(bin, ins)
               cflow == is_cs_cflow_ins(ins)
               only1 == first_sets_only_nop(ndisassembled, nop, only_nop)
               bb1   == [bb EXCEPT
                          !.end = grow_end(@, ins),
                          !.insns = Append(@, MakeInstruction(bin, ins, sec.vma + off)),
                          !.privileged = @ \/ is_cs_privileged_ins(ins),
                          !.padding = @ \/ nop,
                          !.trap = @ \/ is_cs_trap_ins(ins)]
           IN  IF nop_group_break(only1, nop) THEN stop
               ELSE IF cflow_ends_block(cflow)
               THEN [bb |-> bb1, ndisassembled |-> ndisassembled + 1]
               ELSE DecodeLoop(bin, sec, bb1, off + ins.size, ndisassembled + 1, only1)

\* after the loop: "ensure forward progress"
Progress_Missing(bb, ndisassembled) == bb
ensure_forward_progress(bb, ndisassembled) ==
  IF ndisassembled = 0 THEN [bb EXCEPT !.invalid = TRUE, !.end = @ + 1] ELSE bb

\* "basic block address points outside of section": offset is
\* bb->start - vma, and the start is refused when it lies below the section
\* or offset >= size
OutOfSection_OffByOne(sec, bb) == bb.start < sec.vma \/ bb.start - sec.vma > sec.size
out_of_section(sec, bb) == bb.start < sec.vma \/ bb.start - sec.vma >= sec.size

\* cs: whether capstone could be set up ("ok"), or cs_open / cs_malloc failed.
\* Yields the value returned and the block as it is left.
nucleus_disasm_bb_x86(bin, sec, bb, cs) ==
  IF bin.bits \notin {64, 32, 16} THEN [ret |-> -1, bb |-> bb]
  ELSE IF cs # "ok" THEN [ret |-> -1, bb |-> bb]
  ELSE IF out_of_section(sec, bb) THEN [ret |-> -1, bb |-> bb]
  ELSE LET r == DecodeLoop(bin, sec, [bb EXCEPT !.end = bb.start],
                           bb.start - sec.vma, 0, FALSE)
       IN  [ret |-> r.ndisassembled, bb |-> ensure_forward_progress(r.bb, r.ndisassembled)]

nucleus_disasm_bb(bin, sec, bb, cs) ==
  IF bin.arch = "ARCH_X86"
  THEN nucleus_disasm_bb_x86(bin, sec, bb, cs)
  ELSE [ret |-> -1, bb |-> bb]

\* ------------------------------------------------------------------------
\* State
\* ------------------------------------------------------------------------

VARIABLES
  ndebug,     \* TRUE when the build defines NDEBUG (assert compiled out)
  bin,        \* Binary: arch, bits, type
  only_code_sections,  \* options.only_code_sections
  sections,   \* bin->sections: vma, size, type, bytes
  disasm,     \* std::list<DisasmSection>: section (index), addrmap, BBs
  pc,         \* position of the program
  cur,        \* the DisasmSection nucleus_disasm is at (index into disasm)
  Q,          \* the worklist: 0 for NULL, k for &BBs[k] of the current section
  mutants,    \* the candidate array of the current round
  n,          \* number of candidates, then what bb_select returned
  i,          \* loop index of the for loops
  last,       \* what the last nucleus_disasm_bb and bb_score calls returned
  ret,        \* what nucleus_disasm returned ("none" while it runs)
  calls,      \* history: per DisasmSection, calls of bb_mutate and bb_select
  am,         \* the AddressMap driven directly by its operations
  inserted,   \* addresses on which insert() has been called on am
  reinserted, \* how the addresses were tracked ("mapped", "unmapped") on which
              \* insert() has been called again on am
  round0      \* history: disasm and Q as the current worklist round found them

vars == << ndebug, bin, only_code_sections, sections, disasm, pc, cur, Q, mutants,
           n, i, last, ret, calls, am, inserted, reinserted, round0 >>

\* the variables of the engine, untouched by the AddressMap operations
engine == << bin, only_code_sections, sections, disasm, cur, Q, mutants, n, i, last,
             ret, calls, round0 >>

\* outside a worklist round
NoRound == [disasm |-> << >>, Q |-> << >>]

NoCall == [dis |-> 0, s |-> 0]

ELF64 == [arch |-> "ARCH_X86", bits |-> 64, type |-> "BIN_TYPE_ELF"]
PE32 == [arch |-> "ARCH_X86", bits |-> 32, type |-> "BIN_TYPE_PE"]

\* ------------------------------------------------------------------------
\* Specification SpecMap: arbitrary sequences of AddressMap operations
\* ------------------------------------------------------------------------

Addrs == 1..MaxAddr

\* The masks handed to set_addr_type / add_addr_flag: the empty one and two
\* different bits
FlagArgs == {DISASM_REGION_UNMAPPED, DISASM_REGION_CODE, DISASM_REGION_BB_START}

InitMap ==
  /\ ndebug \in BOOLEAN
  /\ pc = "map"
  /\ am = NewAddressMap
  /\ inserted = {}
  /\ reinserted = {}
  /\ round0 = NoRound
  /\ bin = ELF64
  /\ only_code_sections = TRUE
  /\ sections = << >>
  /\ disasm = << >>
  /\ cur = 0
  /\ Q = << >>
  /\ mutants = << >>
  /\ n = 0
  /\ i = 0
  /\ last = NoCall
  /\ ret = "none"
  /\ calls = << >>

MapInsert(a) ==
  /\ pc = "map"
  /\ am' = insert(am, a)
  /\ inserted' = inserted \cup {a}
  /\ reinserted' = reinserted
                   \cup (IF count(am.addrmap, a) # 0 THEN {"mapped"} ELSE {})
                   \cup (IF count(am.unmapped_lookup, a) # 0 THEN {"unmapped"} ELSE {})
  /\ UNCHANGED << ndebug, pc, engine >>

\* get_addr_type, set_addr_type and add_addr_flag start with
\* assert(contains(addr)): in a build with assertions a failing assert aborts
\* the process.
MapGetAddrType(a) ==
  /\ pc = "map"
  /\ a \in inserted
  /\ IF assert_fails(am, a) /\ ~ndebug
     THEN pc' = "aborted" /\ am' = am
     ELSE pc' = pc /\ am' = get_addr_type(am, a).map
  /\ UNCHANGED << ndebug, inserted, reinserted, engine >>

MapSetAddrType(a, t) ==
  /\ pc = "map"
  /\ a \in inserted
  /\ IF assert_fails(am, a) /\ ~ndebug
     THEN pc' = "aborted" /\ am' = am
     ELSE pc' = pc /\ am' = set_addr_type(am, a, t)
  /\ UNCHANGED << ndebug, inserted, reinserted, engine >>

MapAddAddrFlag(a, f) ==
  /\ pc = "map"
  /\ a \in inserted
  /\ IF assert_fails(am, a) /\ ~ndebug
     THEN pc' = "aborted" /\ am' = am
     ELSE pc' = pc /\ am' = add_addr_flag(am, a, f)
  /\ UNCHANGED << ndebug, inserted, reinserted, engine >>

MapEraseUnmapped(a) ==
  /\ pc = "map"
  /\ a \in inserted
  /\ am' = erase_unmapped(am, a)
  /\ UNCHANGED << ndebug, pc, inserted, reinserted, engine >>

NextMap ==
  \/ \E a \in Addrs : MapInsert(a)
  \/ \E a \in Addrs : MapGetAddrType(a)
  \/ \E a \in Addrs, t \in FlagArgs : MapSetAddrType(a, t)
  \/ \E a \in Addrs, f \in FlagArgs : MapAddAddrFlag(a, f)
  \/ \E a \in Addrs : MapEraseUnmapped(a)

SpecMap == InitMap /\ [][NextMap]_vars

\* ------------------------------------------------------------------------
\* Claims about the AddressMap
\* ------------------------------------------------------------------------

IsMapped(m, a) == count(m.addrmap, a) # 0 /\ m.addrmap[a] # DISASM_REGION_UNMAPPED

IsUnmapped(m, a) == a \in Range(m.unmapped) \/ count(m.unmapped_lookup, a) # 0

\* C1: every inserted address is in exactly one of {addrmap with a non-unmapped
\* mask, the unmapped set}; it is never a key of addrmap while a member of the
\* unmapped set, and never in neither.
C1_Partition ==
  \A a \in inserted :
    /\ IsMapped(am, a) # IsUnmapped(am, a)
    /\ ~(count(am.addrmap, a) # 0 /\ IsUnmapped(am, a))

\* number of entries of the unmapped sequence that hold a
Entries(m, a) == Cardinality({k \in DOMAIN m.unmapped : m.unmapped[k] = a})

\* for every i < unmapped_count, unmapped_lookup[get_unmapped(i)] = i
IndexConsistent(m) ==
  \A k \in 0..(unmapped_count(m) - 1) :
    /\ count(m.unmapped_lookup, get_unmapped(m, k)) # 0
    /\ m.unmapped_lookup[get_unmapped(m, k)] = k

\* what erase_unmapped(a) promises, from the map m before to the map m2 after
ErasePost(m, m2, a) ==
  /\ Entries(m2, a) = 0
  /\ count(m2.unmapped_lookup, a) = 0
  /\ \A b \in Range(m.unmapped) \ {a} : Entries(m2, b) = 1
  /\ unmapped_count(m2) = unmapped_count(m) - (IF Entries(m, a) > 0 THEN 1 ELSE 0)
  /\ IndexConsistent(m2)

\* C11: after erase_unmapped(addr), addr is not in the unmapped set, every
\* other address that was unmapped is still in it exactly once, the count
\* dropped by one (by zero when addr was not unmapped), and unmapped_lookup
\* gives every element of the sequence its position.
C11_EraseUnmapped ==
  [][\A a \in Addrs : MapEraseUnmapped(a) => ErasePost(am, am', a)]_vars

\* C11 witness: address 1 left a sequence of three by erase_unmapped (no flag
\* operation touched the map), and the last element took its place.
C11_Witness ==
  /\ inserted = {1, 2, 3}
  /\ am.addrmap = EmptyMap
  /\ am.unmapped = << 3, 2 >>

\* C12: insert on a tracked address (unmapped or mapped) changes nothing; the
\* unmapped sequence never holds an address twice, and insert never puts a
\* mapped address back into the unmapped set.
C12_InsertIdempotent ==
  [][\A a \in Addrs :
       MapInsert(a) =>
         /\ contains(am, a) => am' = am
         /\ Entries(am', a) <= 1
         /\ IsMapped(am, a) => Entries(am', a) = 0 /\ count(am'.unmapped_lookup, a) = 0]_vars

\* C12 witness: insert was called on an address that was tracked, one mapped
\* and one unmapped.
C12_Witness ==
  /\ reinserted = {"mapped", "unmapped"}
  /\ \E a, b \in inserted : IsMapped(am, a) /\ Entries(am, b) = 1

\* ------------------------------------------------------------------------
\* Specification SpecBB: nucleus_disasm_bb applied to one candidate of one
\* section, for every content of the section and every start address from
\* one byte below the section to one byte past it
\* ------------------------------------------------------------------------

\* The instructions sections are filled with
BlockForms == {"nop", "mov_same", "lea_same", "int3", "mov", "ret", "hlt"}

SectionsOver(sizes, types, contents) ==
  UNION {[vma : {1}, size : {sz}, type : types, bytes : [1..sz -> contents]] : sz \in sizes}

\* Binaries: two supported ones, an unsupported width, an unsupported
\* architecture
BBBins == {ELF64, PE32,
           [arch |-> "ARCH_X86", bits |-> 8, type |-> "BIN_TYPE_ELF"],
           [arch |-> "ARCH_NONE", bits |-> 64, type |-> "BIN_TYPE_ELF"]}

\* cs_open / cs_malloc: fine, or failing
CsOutcomes == {"ok", "cs_open failed", "out of memory"}

InitBB ==
  /\ ndebug = TRUE
  /\ pc = "bb"
  /\ bin \in BBBins
  /\ only_code_sections = TRUE
  /\ \E sec \in SectionsOver(1..MaxSecSize, {"SEC_TYPE_CODE"}, BlockForms \cup NonInsn) :
       /\ sections = << sec >>
       /\ \E start \in (sec.vma - 1)..(sec.vma + sec.size) : mutants = << NewBB(start) >>
  /\ disasm = << >>
  /\ cur = 0
  /\ Q = << >>
  /\ n = 1
  /\ i = 0
  /\ last = NoCall
  /\ ret = "none"
  /\ calls = << >>
  /\ am = NewAddressMap
  /\ inserted = {}
  /\ reinserted = {}
  /\ round0 = NoRound

BBDisasm ==
  /\ pc = "bb"
  /\ \E cs \in CsOutcomes :
       LET r == nucleus_disasm_bb(bin, sections[1], mutants[1], cs)
       IN  /\ mutants' = << r.bb >>
           /\ last' = [last EXCEPT !.dis = r.ret]
  /\ pc' = "bb_done"
  /\ UNCHANGED << ndebug, bin, only_code_sections, sections, disasm, cur, Q, n, i, ret,
                  calls, am, inserted, reinserted, round0 >>

NextBB == BBDisasm

SpecBB == InitBB /\ [][NextBB]_vars

\* ------------------------------------------------------------------------
\* Claims about the block decoder
\* ------------------------------------------------------------------------

\* nucleus_disasm_bb has returned a block (not the error value)
Decoded == pc = "bb_done" /\ last.dis >= 0

TheBB == mutants[1]

\* what the oracle said at the block's start
FirstDecode == Oracle(sections[1], TheBB.start - sections[1].vma)

\* C2: for every section, every start address inside it and every behaviour of
\* the oracle, the block returned satisfies end > start.
C2_ForwardProgress == Decoded => TheBB.end > TheBB.start

\* C2 witness: a block was returned whose first decode was reported invalid.
C2_Witness == Decoded /\ FirstDecode = "INVALID"

\* C3: a block returned with zero appended instructions is invalid and has
\* end = start + 1, whichever decode outcome (invalid, zero-length, failure)
\* left it empty.
C3_EmptyBlock ==
  (Decoded /\ TheBB.insns = << >>) => (TheBB.invalid /\ TheBB.end = TheBB.start + 1)

\* What the code does for an empty block: it is invalid, and its end is
\* start + 1 unless the oracle reported an invalid instruction, where both
\* the loop and the final check advance end.
EmptyBlockEnd ==
  (Decoded /\ TheBB.insns = << >>) =>
     /\ TheBB.invalid
     /\ TheBB.end = TheBB.start + (IF FirstDecode = "INVALID" THEN 2 ELSE 1)

HasFlag(ins, f) == f \in ins.flags

LastInsn(bb) == bb.insns[Len(bb.insns)]

\* the oracle's answer at the block's end
NextDecode == Oracle(sections[1], TheBB.end - sections[1].vma)

\* C6: all instructions of a block are of the class (no-op or not) of its
\* first one, and the instruction that broke the run is not part of the
\* block: end is where the last appended instruction ends.
C6_NopGrouping ==
  (Decoded /\ TheBB.insns # << >>) =>
     /\ \A k \in DOMAIN TheBB.insns :
          HasFlag(TheBB.insns[k], "NOP") = HasFlag(TheBB.insns[1], "NOP")
     /\ ~TheBB.invalid => TheBB.end = LastInsn(TheBB).start + LastInsn(TheBB).size

\* C6 witness: a run of two no-ops cut before an instruction that is none.
C6_Witness ==
  /\ Decoded
  /\ Len(TheBB.insns) >= 2
  /\ HasFlag(TheBB.insns[1], "NOP")
  /\ NextDecode \in BlockForms
  /\ ~IsNop(bin, Form(NextDecode))

\* C16: in every block the decoder returns, only the last appended instruction
\* can carry the CFLOW flag: nothing is appended after a control-flow
\* instruction.
C16_CflowLast ==
  Decoded =>
    \A k \in DOMAIN TheBB.insns :
      HasFlag(TheBB.insns[k], "CFLOW") => k = Len(TheBB.insns)

\* C16 witness: a block of two instructions ends on a return although an
\* instruction of the block's class follows it in the section.
C16_Witness ==
  /\ Decoded
  /\ Len(TheBB.insns) = 2
  /\ HasFlag(LastInsn(TheBB), "CFLOW")
  /\ NextDecode \in BlockForms
  /\ IsNop(bin, Form(NextDecode)) = HasFlag(TheBB.insns[1], "NOP")

RECURSIVE SumSizes(_)
SumSizes(insns) ==
  IF insns = << >> THEN 0 ELSE insns[1].size + SumSizes(Tail(insns))

\* C20: in a block returned and not flagged invalid the instructions tile
\* [start, end): the first starts at start, each next one where the previous
\* one ends, end = start + the sum of the sizes, and the value returned is
\* the number of instructions.
C20_Tiling ==
  (Decoded /\ ~TheBB.invalid) =>
     /\ TheBB.insns # << >>
     /\ TheBB.insns[1].start = TheBB.start
     /\ \A k \in 2..Len(TheBB.insns) :
          TheBB.insns[k].start = TheBB.insns[k - 1].start + TheBB.insns[k - 1].size
     /\ TheBB.end = TheBB.start + SumSizes(TheBB.insns)
     /\ last.dis = Len(TheBB.insns)

\* C20 witness: a valid block of a two-byte and a one-byte instruction,
\* started inside the section.
C20_Witness ==
  /\ Decoded
  /\ ~TheBB.invalid
  /\ Len(TheBB.insns) = 2
  /\ TheBB.insns[1].size = 2
  /\ TheBB.insns[2].size = 1
  /\ TheBB.end = TheBB.start + 3

\* The instructions of the catalogue by what they are: NOP / FNOP, the
\* enumerated patterns without effect (mov r,r; xchg r,r; lea r,[r+0];
\* lea r,[r+eiz*x+0]), and INT3 / UD2
ArchNopForms == {"nop", "fnop"}
SemanticNopForms == {"mov_same", "xchg_same", "lea_same", "lea_eiz"}
TrapForms == {"int3", "ud2"}

IsPE == bin.type = "BIN_TYPE_PE"

\* the instruction the section holds at address a
FormAt(a) == sections[1].bytes[a - sections[1].vma + 1]

\* C14: an instruction of a block is treated as a no-op (flagged NOP, and the
\* block is padding) iff it is NOP/FNOP, or a semantic no-op in a binary that
\* is not PE, or a trap in a PE binary.
C14_NopClass ==
  Decoded =>
    /\ \A k \in DOMAIN TheBB.insns :
         HasFlag(TheBB.insns[k], "NOP") <=>
           \/ FormAt(TheBB.insns[k].start) \in ArchNopForms
           \/ FormAt(TheBB.insns[k].start) \in SemanticNopForms /\ ~IsPE
           \/ FormAt(TheBB.insns[k].start) \in TrapForms /\ IsPE
    /\ TheBB.padding <=> (TheBB.insns # << >> /\ HasFlag(TheBB.insns[1], "NOP"))

\* C14 witness: in a PE binary a block of one int3, flagged NOP, was cut
\* before mov eax,eax, which is no no-op there.
C14_Witness ==
  /\ Decoded
  /\ IsPE
  /\ Len(TheBB.insns) = 1
  /\ FormAt(TheBB.start) = "int3"
  /\ HasFlag(TheBB.insns[1], "NOP")
  /\ NextDecode = "mov_same"

\* ------------------------------------------------------------------------
\* The driver: nucleus_disasm, init_disasm, nucleus_disasm_section
\* ------------------------------------------------------------------------

RECURSIVE InsertRange(_, _, _)
InsertRange(m, vma, end) ==
  IF vma < end THEN InsertRange(insert(m, vma), vma + 1, end) ELSE m

\* init_disasm keeps the code sections and, unless only_code_sections, the
\* data sections, and inserts every address of a kept section
KeptSection(sec, only_code) ==
  ~(sec.type # "SEC_TYPE_CODE" /\ ~(~only_code /\ sec.type = "SEC_TYPE_DATA"))

RECURSIVE init_disasm(_, _, _)
init_disasm(secs, k, only_code) ==
  IF k > Len(secs) THEN << >>
  ELSE IF KeptSection(secs[k], only_code)
       THEN << [section |-> k,
                addrmap |-> InsertRange(NewAddressMap, secs[k].vma, secs[k].vma + secs[k].size),
                BBs     |-> << >>] >> \o init_disasm(secs, k + 1, only_code)
       ELSE init_disasm(secs, k + 1, only_code)

\* The add_addr_flag calls made for an accepted block, in order
FlagOps(bb) ==
  << [addr |-> bb.start, flag |-> DISASM_REGION_BB_START] >>
  \o [k \in DOMAIN bb.insns |-> [addr |-> bb.insns[k].start, flag |-> DISASM_REGION_INS_START]]
  \o [k \in 1..(IF bb.end > bb.start THEN bb.end - bb.start ELSE 0) |->
        [addr |-> bb.start + k - 1, flag |-> DISASM_REGION_CODE]]

\* Runs the calls ops[k..]; a failing assert stops the run in a build with
\* assertions, and is stepped over (add_addr_flag does nothing) under NDEBUG.
RECURSIVE ApplyFlags(_, _, _, _)
ApplyFlags(m, ops, k, nodebug) ==
  IF k > Len(ops) THEN [map |-> m, aborted |-> FALSE]
  ELSE IF assert_fails(m, ops[k].addr) /\ ~nodebug THEN [map |-> m, aborted |-> TRUE]
  ELSE ApplyFlags(add_addr_flag(m, ops[k].addr, ops[k].flag), ops, k + 1, nodebug)

\* if(mutants[i].alive)
Takes_All(bb) == TRUE
takes_candidate(bb) == bb.alive

\* Q.push(&dis->BBs.back()): the parent is the copy just appended to BBs
Push_Nothing(q, bbs) == q
push_parent(q, bbs) == Append(q, Len(bbs))

\* The loop over the candidates after bb_select, from index k (1-based) up to
\* n.  st: the section's addrmap and BBs, the queue, and whether an assert
\* aborted the process.
RECURSIVE AcceptLoop(_, _, _, _, _)
AcceptLoop(st, ms, k, upto, nodebug) ==
  IF k > upto \/ st.aborted THEN st
  ELSE IF takes_candidate(ms[k])
       THEN LET f   == ApplyFlags(st.addrmap, FlagOps(ms[k]), 1, nodebug)
                bbs == Append(st.BBs, ms[k])
            IN  IF f.aborted
                THEN [st EXCEPT !.addrmap = f.map, !.aborted = TRUE]
                ELSE AcceptLoop([addrmap |-> f.map, BBs |-> bbs,
                                 Q |-> push_parent(st.Q, bbs), aborted |-> FALSE],
                                ms, k + 1, upto, nodebug)
       ELSE AcceptLoop(st, ms, k + 1, upto, nodebug)

\* if(nucleus_disasm_bb(...) < 0) goto fail; if((s = bb_score(...)) < 0) goto fail;
Fails_OnDecodeOnly(disret, s) == disret < 0
round_fails(disret, s) == disret < 0 \/ s < 0

\* bb_score: negative, zero or positive
Scores == {-1, 0, 1}

TheSection == sections[disasm[cur].section]

\* The instructions the driver's sections are filled with
DriverForms == {"nop", "mov", "ret"}

DriverContents == DriverForms \cup {"FAIL", "INVALID"}

Init ==
  /\ ndebug \in BOOLEAN
  /\ bin = ELF64
  /\ only_code_sections \in BOOLEAN
  /\ \E s1 \in SectionsOver(1..MaxDriverSize, {"SEC_TYPE_CODE"}, DriverContents) :
       sections = << s1, [vma |-> s1.vma + s1.size + 1, size |-> 1,
                          type |-> "SEC_TYPE_DATA", bytes |-> << "ret" >>] >>
  /\ disasm = << >>
  /\ pc = "start"
  /\ cur = 0
  /\ Q = << >>
  /\ mutants = << >>
  /\ n = 0
  /\ i = 0
  /\ last = NoCall
  /\ ret = "none"
  /\ calls = << >>
  /\ am = NewAddressMap
  /\ inserted = {}
  /\ reinserted = {}
  /\ round0 = NoRound

\* nucleus_disasm up to its first call of nucleus_disasm_section
InitDisasm ==
  /\ pc = "start"
  /\ disasm' = init_disasm(sections, 1, only_code_sections)
  /\ calls' = [k \in DOMAIN disasm' |-> [mutate |-> 0, select |-> 0]]
  /\ IF disasm' = << >>
     THEN pc' = "done" /\ ret' = 0 /\ cur' = cur
     ELSE pc' = "section" /\ ret' = ret /\ cur' = 1
  /\ UNCHANGED << ndebug, bin, only_code_sections, sections, Q, mutants, n, i, last,
                  am, inserted, reinserted, round0 >>

\* nucleus_disasm_section returned 0 for the current section: nucleus_disasm
\* goes on to the next one, or returns 0 after the last
SectionReturned ==
  IF cur = Len(disasm)
  THEN pc' = "done" /\ ret' = 0 /\ cur' = cur
  ELSE pc' = "section" /\ ret' = ret /\ cur' = cur + 1

\* entry of nucleus_disasm_section, up to the head of the while loop
SectionEnter ==
  /\ pc = "section"
  /\ IF TheSection.type # "SEC_TYPE_CODE" /\ only_code_sections
     THEN SectionReturned /\ Q' = Q
     ELSE pc' = "loop" /\ Q' = << 0 >> /\ UNCHANGED << ret, cur >>
  /\ UNCHANGED << ndebug, bin, only_code_sections, sections, disasm, mutants, n, i,
                  last, calls, am, inserted, reinserted, round0 >>

\* while(!Q.empty()) with the queue empty: the section is done
SectionDone ==
  /\ pc = "loop"
  /\ Q = << >>
  /\ SectionReturned
  /\ UNCHANGED << ndebug, bin, only_code_sections, sections, disasm, Q, mutants, n, i,
                  last, calls, am, inserted, reinserted, round0 >>

\* Q.pop()
Pop_Nothing(q) == q
pop_front(q) == Tail(q)

\* n = bb_mutate(dis, Q.front(), &mutants); Q.pop();  The policy hands back
\* the candidates starts, fresh blocks with only start set.
MutateWith(starts) ==
  /\ pc = "loop"
  /\ Q # << >>
  /\ mutants' = [k \in DOMAIN starts |-> NewBB(starts[k])]
  /\ n' = Len(starts)
  /\ Q' = pop_front(Q)
  /\ i' = 0
  /\ calls' = [calls EXCEPT ![cur].mutate = @ + 1]
  /\ round0' = [disasm |-> disasm, Q |-> Q]
  /\ pc' = "candidates"
  /\ UNCHANGED << ndebug, bin, only_code_sections, sections, disasm, cur, last, ret,
                  am, inserted, reinserted >>

StartSeqs(addrs) == UNION {[1..len -> addrs] : len \in 0..MaxMutants}

\* any policy: candidates from one byte below the section to one byte past it
Mutate ==
  /\ pc = "loop"
  /\ Len(disasm[cur].BBs) < MaxBBs
  /\ \E starts \in StartSeqs((TheSection.vma - 1)..(TheSection.vma + TheSection.size)) :
       MutateWith(starts)

\* one round of the first for loop: decode candidate i, then score it
DisasmScoreWith(css, scores) ==
  /\ pc = "candidates"
  /\ i < n
  /\ \E cs \in css, s \in scores :
       LET r == nucleus_disasm_bb(bin, TheSection, mutants[i + 1], cs)
           scored == IF r.ret < 0 THEN last.s ELSE s
       IN  /\ last' = [dis |-> r.ret, s |-> scored]
           /\ mutants' = [mutants EXCEPT ![i + 1] = r.bb]
           /\ IF round_fails(r.ret, scored)
              THEN pc' = "failed" /\ ret' = -1 /\ i' = i
              ELSE pc' = pc /\ ret' = ret /\ i' = i + 1
  /\ UNCHANGED << ndebug, bin, only_code_sections, sections, disasm, cur, Q, n, calls,
                  am, inserted, reinserted, round0 >>

DisasmScore == DisasmScoreWith(CsOutcomes, Scores)

\* what bb_select may leave: any alive flags, and as its result either the
\* number of candidates it left alive or the number it was given
SelectOutcomes(len) ==
  {o \in [alive : [1..len -> BOOLEAN], returned : 0..len] :
     o.returned \in {Cardinality({k \in 1..len : o.alive[k]}), len}}

\* n = bb_select(dis, mutants, n), then the loop that takes the candidates
\* over into the address map, the BBs list and the queue
SelectAccept ==
  /\ pc = "candidates"
  /\ i = n
  /\ \E o \in SelectOutcomes(Len(mutants)) :
       LET ms == [k \in DOMAIN mutants |-> [mutants[k] EXCEPT !.alive = o.alive[k]]]
           st == AcceptLoop([addrmap |-> disasm[cur].addrmap, BBs |-> disasm[cur].BBs,
                             Q |-> Q, aborted |-> FALSE], ms, 1, o.returned, ndebug)
       IN  /\ mutants' = ms
           /\ n' = o.returned
           /\ i' = o.returned
           /\ disasm' = [disasm EXCEPT ![cur].addrmap = st.addrmap, ![cur].BBs = st.BBs]
           /\ Q' = st.Q
           /\ pc' = IF st.aborted THEN "aborted" ELSE "loop"
  /\ calls' = [calls EXCEPT ![cur].select = @ + 1]
  /\ round0' = NoRound
  /\ UNCHANGED << ndebug, bin, only_code_sections, sections, cur, last, ret,
                  am, inserted, reinserted >>

Next ==
  \/ InitDisasm
  \/ SectionEnter
  \/ SectionDone
  \/ Mutate
  \/ DisasmScore
  \/ SelectAccept

Spec == Init /\ [][Next]_vars

\* ------------------------------------------------------------------------
\* Claims about the driver
\* ------------------------------------------------------------------------

\* the worklist loop is at its head and the candidates are those of the round
\* just finished
RoundDone == pc = "loop" /\ cur \in DOMAIN disasm /\ calls[cur].select > 0

Flags(m, a) == IF count(m.addrmap, a) # 0 THEN m.addrmap[a] ELSE {}

\* the marks the acceptance of bb leaves, on the addresses the map tracks
Marked(m, bb) ==
  /\ DISASM_REGION_BB_START \subseteq Flags(m, bb.start)
  /\ \A k \in DOMAIN bb.insns : DISASM_REGION_INS_START \subseteq Flags(m, bb.insns[k].start)
  /\ \A a \in bb.start..(bb.end - 1) : contains(m, a) => DISASM_REGION_CODE \subseteq Flags(m, a)

\* C4: every candidate left alive by bb_select, at any index and whatever
\* bb_select returned, is marked in the AddressMap, copied to the BBs list,
\* and its copy enqueued.
C4_SurvivorsAccepted ==
  RoundDone =>
    \A k \in DOMAIN mutants :
      mutants[k].alive =>
        /\ Marked(disasm[cur].addrmap, mutants[k])
        /\ \E j \in DOMAIN disasm[cur].BBs :
             disasm[cur].BBs[j] = mutants[k] /\ j \in Range(Q)

AcceptedBlocks == UNION {{d} \X DOMAIN disasm[d].BBs : d \in DOMAIN disasm}

BlockAt(p) == disasm[p[1]].BBs[p[2]]

SectionAt(p) == sections[disasm[p[1]].section]

EndsOnCflow(bb) == bb.insns # << >> /\ HasFlag(LastInsn(bb), "CFLOW")

\* no byte is left at offset off, or the instruction there is cut by the end
\* of the section
RanOut(sec, off) ==
  \/ off >= sec.size
  \/ sec.bytes[off + 1] \notin NonInsn /\ Form(sec.bytes[off + 1]).size > sec.size - off

\* the instruction at the block's end is of the other class (no-op or not)
\* than the block's first one
CutByGrouping(sec, bb) ==
  LET o == Oracle(sec, bb.end - sec.vma)
  IN  /\ bb.insns # << >>
      /\ o \notin NonInsn
      /\ IsNop(bin, Form(o)) # HasFlag(bb.insns[1], "NOP")

\* C5 as stated: every accepted block ends on a control-flow instruction, or
\* is invalid, or ran out of section bytes.
C5_Original ==
  \A p \in AcceptedBlocks :
    \/ EndsOnCflow(BlockAt(p))
    \/ BlockAt(p).invalid
    \/ RanOut(SectionAt(p), BlockAt(p).end - SectionAt(p).vma)

\* C5, amended: every accepted block ends on a control-flow instruction, or is
\* invalid, or the oracle yields no instruction at its end (bytes exhausted,
\* decode failed or zero-length), or the instruction at its end is of the
\* other no-op class than its first instruction (the no-op grouping break).
C5_BlockEnds ==
  \A p \in AcceptedBlocks :
    \/ EndsOnCflow(BlockAt(p))
    \/ BlockAt(p).invalid
    \/ Oracle(SectionAt(p), BlockAt(p).end - SectionAt(p).vma) \in {"FAIL", "ZERO"}
    \/ CutByGrouping(SectionAt(p), BlockAt(p))

\* C5 witness: an accepted run of no-ops that stopped before a valid
\* instruction that is none, with bytes left.
C5_Witness ==
  \E p \in AcceptedBlocks :
    /\ ~BlockAt(p).invalid
    /\ ~EndsOnCflow(BlockAt(p))
    /\ CutByGrouping(SectionAt(p), BlockAt(p))

\* C7: a candidate not alive changes nothing, so every address carrying CODE,
\* INS_START or BB_START lies inside [start, end) of an accepted block.
C7_MarksInsideAccepted ==
  \A d \in DOMAIN disasm :
    \A a \in DOMAIN disasm[d].addrmap.addrmap :
      disasm[d].addrmap.addrmap[a] # {} =>
        \E j \in DOMAIN disasm[d].BBs :
          disasm[d].BBs[j].start <= a /\ a < disasm[d].BBs[j].end

\* C8: a decode error or a negative score makes nucleus_disasm_section and
\* nucleus_disasm return -1 at once: bb_select is not called for that round,
\* and no later section is touched.
C8_FailStops ==
  /\ (last.dis < 0 \/ last.s < 0) => (pc = "failed" /\ ret = -1)
  /\ pc = "failed" =>
       /\ ret = -1
       /\ calls[cur].select = calls[cur].mutate - 1
       /\ \A d \in DOMAIN disasm :
            d > cur => /\ calls[d] = [mutate |-> 0, select |-> 0]
                       /\ disasm[d].BBs = << >>
                       /\ disasm[d].addrmap.addrmap = EmptyMap

\* C8 witness: the second candidate of a round got a negative score in the
\* first of two sections.
C8_Witness ==
  /\ pc = "failed"
  /\ last.s < 0
  /\ i = 1
  /\ cur = 1
  /\ Len(disasm) = 2

\* C10 as stated: no invalid block is ever marked CODE or enqueued, that is,
\* none is ever taken over into the accepted list.
C10_Original ==
  \A p \in AcceptedBlocks : ~BlockAt(p).invalid

\* C10, amended: an invalid candidate is marked CODE and enqueued only if
\* bb_select left it alive (it is then treated like any other candidate):
\* every accepted block and every enqueued parent was alive, and every
\* address marked CODE lies in an accepted block or in a candidate of the
\* current round that is alive.
C10_OnlyAliveTaken ==
  /\ \A p \in AcceptedBlocks : BlockAt(p).alive
  /\ pc \in {"loop", "candidates"} =>
       \A k \in Range(Q) : k = 0 \/ (k \in DOMAIN disasm[cur].BBs /\ disasm[cur].BBs[k].alive)
  /\ \A d \in DOMAIN disasm :
       \A a \in DOMAIN disasm[d].addrmap.addrmap :
         DISASM_REGION_CODE \subseteq disasm[d].addrmap.addrmap[a] =>
           \/ \E j \in DOMAIN disasm[d].BBs :
                disasm[d].BBs[j].start <= a /\ a < disasm[d].BBs[j].end
           \/ /\ d = cur
              /\ \E k \in DOMAIN mutants :
                   mutants[k].alive /\ mutants[k].start <= a /\ a < mutants[k].end

\* C10 witness: an invalid block that bb_select left alive is in the accepted
\* list and in the queue.
C10_Witness ==
  /\ RoundDone
  /\ \E j \in DOMAIN disasm[cur].BBs : disasm[cur].BBs[j].invalid /\ j \in Range(Q)

\* the candidate the decode step is about to take
NextCandidate == mutants[i + 1]

\* the start of bb lies in [vma, vma + size) of the section
StartInSection(sec, bb) == sec.vma <= bb.start /\ bb.start < sec.vma + sec.size

DecodeStep == pc = "candidates" /\ i < n

\* C13 as stated: a candidate whose start is below the section or at/after
\* its end makes the decode return -1 with the block untouched and the
\* section (and the run) fail; every other candidate, the architecture and
\* width being supported, is decoded without error.
C13_Original ==
  [][DecodeStep =>
       IF StartInSection(TheSection, NextCandidate)
       THEN last'.dis >= 0
       ELSE last'.dis = -1 /\ mutants' = mutants /\ pc' = "failed" /\ ret' = -1]_vars

\* C13, amended: an out-of-range start makes the decode return -1 with the
\* block untouched and the section fail; an in-range start, with a supported
\* architecture and width, is decoded without error provided capstone could
\* be set up (cs_open and cs_malloc succeeded).
C13_RangeCheck ==
  [][DecodeStep =>
       IF StartInSection(TheSection, NextCandidate)
       THEN DisasmScoreWith({"ok"}, Scores) => last'.dis >= 0
       ELSE last'.dis = -1 /\ mutants' = mutants /\ pc' = "failed" /\ ret' = -1]_vars

\* C13 witness: the round failed on its second candidate, which starts right
\* after the last byte of the section; the first one, in range, was decoded.
C13_Witness ==
  /\ pc = "failed"
  /\ last.dis = -1
  /\ i = 1
  /\ mutants[2].start = TheSection.vma + TheSection.size
  /\ mutants[2].end = 0
  /\ StartInSection(TheSection, mutants[1])
  /\ mutants[1].end > mutants[1].start

\* a lies in [start, end) of bb
Covers(bb, a) == bb.start <= a /\ a < bb.end

\* C15: in every step of the run, for every section: the flags of each address
\* only grow, the unmapped set only shrinks, and an address leaves it only in
\* the step that takes over an alive candidate covering it (a step after
\* bb_select, the candidate within the count bb_select returned; the block is
\* in the BBs list afterwards unless an assert stopped the process).
C15_Monotonic ==
  [][\A d \in DOMAIN disasm :
       /\ d \in DOMAIN disasm'
       /\ \A a \in DOMAIN disasm[d].addrmap.addrmap :
            /\ a \in DOMAIN disasm'[d].addrmap.addrmap
            /\ disasm[d].addrmap.addrmap[a] \subseteq disasm'[d].addrmap.addrmap[a]
       /\ Range(disasm'[d].addrmap.unmapped) \subseteq Range(disasm[d].addrmap.unmapped)
       /\ \A a \in Range(disasm[d].addrmap.unmapped) \ Range(disasm'[d].addrmap.unmapped) :
            /\ d = cur
            /\ pc = "candidates" /\ i = n
            /\ \E k \in 1..n' :
                 /\ mutants'[k].alive
                 /\ Covers(mutants'[k], a)
                 /\ pc' # "aborted" => mutants'[k] \in Range(disasm'[d].BBs)]_vars

\* C15 witness: after two rounds that each accepted a block at the same
\* start, that address carries the flags of both and another address of the
\* section is still unmapped.
C15_Witness ==
  /\ RoundDone
  /\ calls[cur].select = 2
  /\ Len(disasm[cur].BBs) = 2
  /\ disasm[cur].BBs[1].start = disasm[cur].BBs[2].start
  /\ {"BB_START", "INS_START", "CODE"} \subseteq
       Flags(disasm[cur].addrmap, disasm[cur].BBs[1].start)
  /\ disasm[cur].addrmap.unmapped # << >>

\* C17: every block the decoder returned for a candidate ends inside the
\* section (end <= vma + size), and no assert(contains(addr)) of add_addr_flag
\* fails when a block is taken over.
C17_EndInSection ==
  /\ pc # "aborted"
  /\ pc = "candidates" =>
       \A k \in 1..i : mutants[k].end <= TheSection.vma + TheSection.size

\* C18 as stated: when a round fails, the AddressMap, the BBs list (of this
\* and of every other section) and the queue are exactly as the round found
\* them.
C18_Original ==
  pc = "failed" => disasm = round0.disasm /\ Q = round0.Q

\* C18, amended: when a round fails, the AddressMap and the BBs list of this
\* and of every other section are exactly as the round found them, whatever
\* was decoded and scored before the failing candidate; the queue has lost
\* the parent the round popped, and nothing else.
C18_FailLeavesResults ==
  pc = "failed" => disasm = round0.disasm /\ Q = Tail(round0.Q) /\ round0.Q # << >>

\* C18 witness: the second round of a section failed on its second candidate;
\* the first round had accepted a block.
C18_Witness ==
  /\ pc = "failed"
  /\ i = 1
  /\ mutants[1].end > mutants[1].start
  /\ calls[cur].mutate = 2
  /\ disasm[cur].BBs # << >>

\* ------------------------------------------------------------------------
\* Specification SpecPolicy: the driver under a mutation policy that keeps
\* its contract (finitely many candidates, each inside the section and
\* unmapped when proposed), a scoring policy that never returns a negative
\* score, and a decode oracle that can be set up.  The program is sequential
\* and runs on whenever it can: weak fairness of its next step.
\* ------------------------------------------------------------------------

MutateUnmapped ==
  /\ pc = "loop"
  /\ \E starts \in StartSeqs(Range(disasm[cur].addrmap.unmapped)
                               \cap (TheSection.vma..(TheSection.vma + TheSection.size - 1))) :
       MutateWith(starts)

DisasmScoreOk == DisasmScoreWith({"ok"}, {0, 1})

NextPolicy ==
  \/ InitDisasm
  \/ SectionEnter
  \/ SectionDone
  \/ MutateUnmapped
  \/ DisasmScoreOk
  \/ SelectAccept

SpecPolicy == Init /\ [][NextPolicy]_vars /\ WF_vars(NextPolicy)

\* the program has a step to take
Running == pc \in {"start", "section", "loop", "candidates"}

\* C9: under such policies the worklist loop of every section empties its
\* queue and returns, so that nucleus_disasm returns: the run never stops
\* short of returning (the runs of SpecPolicy are finite: no policy proposes
\* an address twice once it is mapped).
C9_ReturnsOrRuns == pc = "done" \/ Running

\* nucleus_disasm_section has returned 0 for DisasmSection d
ReturnedOk(d) == d < cur \/ (d = cur /\ pc = "done")

\* nucleus_disasm_section has left d at its skip of non-code sections
Skipped(d) == sections[disasm[d].section].type # "SEC_TYPE_CODE" /\ only_code_sections

\* C19: the queue starts as the one null parent; it always holds, in order
\* and once each, the parents not yet handed to bb_mutate: after m calls of
\* bb_mutate these are the copies m, m + 1, ... , |BBs| in the BBs list (0,
\* the null parent, before the first call).  So every accepted block is
\* enqueued once and dequeued at most once, and a section that returned 0
\* has had bb_mutate called 1 + |BBs| times.
C19_Accounting ==
  /\ pc = "loop" /\ calls[cur].mutate = 0 => Q = << 0 >>
  /\ pc \in {"loop", "candidates"} =>
       /\ Len(Q) = 1 + Len(disasm[cur].BBs) - calls[cur].mutate
       /\ \A k \in DOMAIN Q : Q[k] = calls[cur].mutate - 1 + k
  /\ \A d \in DOMAIN disasm :
       ReturnedOk(d) /\ ~Skipped(d) => calls[d].mutate = 1 + Len(disasm[d].BBs)

\* C19 witness: the run returned 0 and its first section holds three accepted
\* blocks, each of which was a parent once.
C19_Witness ==
  /\ pc = "done"
  /\ ret = 0
  /\ Len(disasm[1].BBs) = 3
  /\ calls[1].mutate = 4

====
